---------------------------- MODULE Spec2Model ----------------------------
(***************************************************************************)
(* A model of bnl.core (src/src/bnl/core.py): TimeSpan, Segmentation and   *)
(* Hierarchy, their constructors and their derived views.                  *)
(*                                                                         *)
(* The library is a set of synchronous calls on immutable values, so the   *)
(* state machine is a session: from "idle" one call is made with arguments *)
(* drawn from bounded sets, its outcome (the exception raised, or the      *)
(* instance produced) is recorded, and Return goes back to "idle".         *)
(*                                                                         *)
(* Times are counted in half seconds (t stands for t/2 s), so that the     *)
(* "%.1f" rendering used by TimeSpan.__str__ is exact.  An Optional[str]   *)
(* is a sequence of length <= 1: None is <<>> and the string s is <<s>>.   *)
(* A call that raises produces no instance: its result is <<>>.            *)
(*                                                                         *)
(* bnl.data (src/src/bnl/data/base.py, salami.py) adds the two pieces of   *)
(* state that outlive a call: the module-level _default_config and the     *)
(* caches of a BaseTrack.  bnl.viz.label_style_dict is a pure function.    *)
(***************************************************************************)
EXTENDS Integers, Sequences, FiniteSets, TLC

VARIABLES pc, op, args, ret, _default_config, track

vars == <<pc, op, args, ret, _default_config, track>>

\* What the calls on TimeSpan, Segmentation, Hierarchy and Segment never touch.
datavars == <<_default_config, track>>

\* ------------------------------------------------------------------ bounds
\* Times range over 0..MaxTime half seconds.
MaxTime == 2
\* Longest list of spans / intervals / labels handed to a constructor.
MaxSpans == 3
\* Longest list of layers handed to Hierarchy.
MaxLayers == 2
\* Most entries in a directory of annotations.
MaxFiles == 2
\* Longest list of track ids handed to load_tracks.
MaxIds == 2
\* Most calls of jams.load that return, for one track.
MaxReads == 3
\* Most distinct labels handed to label_style_dict: more than the 360
\* combinations of 18 hatches and 20 colours.
MaxLabels == 362

Times == 0..MaxTime

None == <<>>
Some(s) == <<s>>

SeqsUpTo(S, n) == UNION {[1..k -> S] : k \in 0..n}

Min(a, b) == IF a <= b THEN a ELSE b

\* ---------------------------------------------------------------- TimeSpan
\* f"{t:.1f}" for t a multiple of 0.5 s.
FmtTime(t) == ToString(t \div 2) \o "." \o (IF t % 2 = 0 THEN "0" ELSE "5")

\* TimeSpan.__str__: the label is dropped when name is None or empty.
TimeSpan_str(start, end, name) ==
    LET lab == IF name # None /\ name[1] # "" THEN name[1] ELSE ""
    IN  "[" \o FmtTime(start) \o "-" \o FmtTime(end) \o "s]" \o lab

\* A TimeSpan check that also rejects start == end.
TimeSpan_post_init_strict(start, end, name) ==
    IF start >= end
    THEN [err |-> "ValueError", val |-> <<>>]
    ELSE [err |-> "",
          val |-> <<[start |-> start, end |-> end,
                     name |-> IF name = None
                              THEN Some(TimeSpan_str(start, end, name))
                              ELSE name]>>]

\* TimeSpan(start, end, name): the dataclass __init__ followed by
\* __post_init__.
TimeSpan_post_init(start, end, name) ==
    IF start > end
    THEN [err |-> "ValueError", val |-> <<>>]
    ELSE [err |-> "",
          val |-> <<[start |-> start, end |-> end,
                     name |-> IF name = None
                              THEN Some(TimeSpan_str(start, end, name))
                              ELSE name]>>]

\* The TimeSpan instances that can exist, with the names the model uses.
SpanNames == {None, Some("A")}
Spans ==
    {r.val[1] : r \in {x \in {TimeSpan_post_init(s, e, n) :
                                <<s, e, n>> \in Times \X Times \X SpanNames} :
                        x.err = ""}}

\* ------------------------------------------------------------ Segmentation
\* sorted(segments, key=lambda x: x.start): a stable sort, computed as an
\* insertion from the left that places x after every element whose start
\* is not greater.
RECURSIVE InsertByStart(_, _)
InsertByStart(x, sorted) ==
    IF sorted = <<>> THEN <<x>>
    ELSE IF Head(sorted).start <= x.start
         THEN <<Head(sorted)>> \o InsertByStart(x, Tail(sorted))
         ELSE <<x>> \o sorted

RECURSIVE SortFrom(_, _)
SortFrom(done, rest) ==
    IF rest = <<>> THEN done
    ELSE SortFrom(InsertByStart(Head(rest), done), Tail(rest))

\* A sort that leaves the list as given.
SortedByStart_unsorted(segments) == segments

\* sorted(self.segments, key=lambda x: x.start)
SortedByStart(segments) == SortFrom(<<>>, segments)

\* A check that refuses gaps and lets overlaps through.
Contiguous_gaps_only(segments) ==
    \A i \in 1..(Len(segments) - 1) : segments[i].end >= segments[i + 1].start

\* The loop of Segmentation.__post_init__: TRUE when no adjacent pair of
\* the list differs in end / start.
Contiguous(segments) ==
    \A i \in 1..(Len(segments) - 1) : segments[i].end = segments[i + 1].start

\* A __post_init__ that fills start and end from the segments only when the
\* caller left both at their default.
Segmentation_post_init_keep_explicit(start, end, name, segments) ==
    LET s == SortedByStart(segments)
        fill == s # <<>> /\ start = 0 /\ end = 0
    IN  IF ~Contiguous(s)
        THEN [err |-> "ValueError", val |-> <<>>]
        ELSE [err |-> "",
              val |-> <<[start |-> IF fill THEN s[1].start ELSE start,
                         end |-> IF fill THEN s[Len(s)].end ELSE end,
                         name |-> name,
                         segments |-> s]>>]

\* Segmentation(start, end, name, segments): the dataclass __init__ followed
\* by Segmentation.__post_init__, which overrides TimeSpan.__post_init__.
Segmentation_post_init(start, end, name, segments) ==
    LET s == SortedByStart(segments)
    IN  IF ~Contiguous(s)
        THEN [err |-> "ValueError", val |-> <<>>]
        ELSE [err |-> "",
              val |-> <<[start |-> IF s # <<>> THEN s[1].start ELSE start,
                         end |-> IF s # <<>> THEN s[Len(s)].end ELSE end,
                         name |-> name,
                         segments |-> s]>>]

\* Segmentation.__len__
Segmentation_len(seg) == Len(seg.segments)

\* Indexing that wraps around the end of the list instead of failing.
list_getitem_wrapping(list, idx) ==
    IF list = <<>> THEN [err |-> "IndexError", val |-> <<>>]
    ELSE [err |-> "", val |-> <<list[(idx % Len(list)) + 1]>>]

\* list[idx] of Python, idx counted from 0: positions -len..len-1 exist (the
\* negative ones count from the end), any other raises IndexError.
list_getitem(list, idx) ==
    IF idx >= Len(list) \/ idx < -Len(list)
    THEN [err |-> "IndexError", val |-> <<>>]
    ELSE [err |-> "",
          val |-> <<list[(IF idx < 0 THEN idx + Len(list) ELSE idx) + 1]>>]

\* Segmentation.__getitem__
Segmentation_getitem(seg, idx) == list_getitem(seg.segments, idx)

\* Segmentation.labels: the name of every segment, in order.
Segmentation_labels(seg) == [i \in 1..Len(seg.segments) |-> seg.segments[i].name]

\* An interval array flattened to one dimension.
Segmentation_itvls_flat(seg) ==
    IF seg.segments = <<>> THEN <<>>
    ELSE [i \in 1..Len(seg.segments) |-> seg.segments[i].start]
            \o [i \in 1..Len(seg.segments) |-> seg.segments[i].end]

\* Segmentation.itvls: np.array([]) for no segments, else one (start, end)
\* row per segment.
Segmentation_itvls(seg) ==
    IF seg.segments = <<>> THEN <<>>
    ELSE [i \in 1..Len(seg.segments) |->
            <<seg.segments[i].start, seg.segments[i].end>>]

\* Segmentation.bdrys listing the start of every segment instead of the
\* first start followed by every end.
Segmentation_bdrys_starts(seg) ==
    [i \in 1..Len(seg.segments) |-> seg.segments[i].start]

\* bdrys without the guard for no segments, starting from the aggregate's
\* own start.
Segmentation_bdrys_no_guard(seg) ==
    <<seg.start>> \o [i \in 1..Len(seg.segments) |-> seg.segments[i].end]

\* Segmentation.bdrys: [] for no segments, else the first start followed by
\* every end.
Segmentation_bdrys(seg) ==
    IF seg.segments = <<>> THEN <<>>
    ELSE <<seg.segments[1].start>> \o
         [i \in 1..Len(seg.segments) |-> seg.segments[i].end]

\* dataclass-generated __eq__ that looks at the segments alone.
Segmentation_eq_segments_only(a, b) == a.segments = b.segments

\* The dataclass-generated Segmentation.__eq__: the tuples of all fields
\* (start, end, name, segments) are compared.
Segmentation_eq(a, b) ==
    <<a.start, a.end, a.name, a.segments>> = <<b.start, b.end, b.name, b.segments>>

\* zip(intervals, labels) stops at the shorter of the two.
ZipLen(intervals, labels) == Min(Len(intervals), Len(labels))

\* from_intervals whose default labels are empty strings.
from_intervals_blank_labels(intervals, labels, name) ==
    LET labs == IF labels = None
                THEN [i \in 1..Len(intervals) |-> Some("")]
                ELSE labels[1]
        n == ZipLen(intervals, labs)
        made == [i \in 1..n |->
                    TimeSpan_post_init(intervals[i][1], intervals[i][2], labs[i])]
    IN  IF \E i \in 1..n : made[i].err # ""
        THEN [err |-> "ValueError", val |-> <<>>]
        ELSE Segmentation_post_init(0, 0, name, [i \in 1..n |-> made[i].val[1]])

\* Segmentation.from_intervals(intervals, labels, name).  labels is an
\* Optional list: None, or Some(list of names).
from_intervals(intervals, labels, name) ==
    LET labs == IF labels = None
                THEN [i \in 1..Len(intervals) |-> None]
                ELSE labels[1]
        n == ZipLen(intervals, labs)
        made == [i \in 1..n |->
                    TimeSpan_post_init(intervals[i][1], intervals[i][2], labs[i])]
    IN  IF \E i \in 1..n : made[i].err # ""
        THEN [err |-> "ValueError", val |-> <<>>]
        ELSE Segmentation_post_init(0, 0, name, [i \in 1..n |-> made[i].val[1]])

\* sorted(boundaries): ascending, duplicates kept.
RECURSIVE InsertNum(_, _)
InsertNum(x, sorted) ==
    IF sorted = <<>> THEN <<x>>
    ELSE IF Head(sorted) <= x
         THEN <<Head(sorted)>> \o InsertNum(x, Tail(sorted))
         ELSE <<x>> \o sorted

RECURSIVE SortNumsFrom(_, _)
SortNumsFrom(done, rest) ==
    IF rest = <<>> THEN done
    ELSE SortNumsFrom(InsertNum(Head(rest), done), Tail(rest))

sorted(boundaries) == SortNumsFrom(<<>>, boundaries)

\* np.unique: the distinct values, ascending.
RECURSIVE SetToSortedSeq(_)
SetToSortedSeq(S) ==
    IF S = {} THEN <<>>
    ELSE LET m == CHOOSE x \in S : \A y \in S : x <= y
         IN  <<m>> \o SetToSortedSeq(S \ {m})

np_unique(a) == SetToSortedSeq({a[i] : i \in 1..Len(a)})

\* np.allclose(a, b) on one-dimensional arrays: "ValueError" when the two
\* shapes cannot be broadcast together (different lengths, neither of
\* them 1), otherwise whether all elements agree.
np_allclose(a, b) ==
    IF Len(a) # Len(b) /\ Len(a) # 1 /\ Len(b) # 1 THEN "ValueError"
    ELSE LET n == IF Len(a) = 1 THEN Len(b) ELSE Len(a)
             at(x, i) == IF Len(x) = 1 THEN x[1] ELSE x[i]
         IN  IF (Len(a) = 0 \/ Len(b) = 0) THEN "True"
             ELSE IF \A i \in 1..n : at(a, i) = at(b, i) THEN "True" ELSE "False"

\* zip(boundaries[:-1], boundaries[1:]).
AdjacentPairs(boundaries) ==
    [i \in 1..(IF Len(boundaries) = 0 THEN 0 ELSE Len(boundaries) - 1) |->
        <<boundaries[i], boundaries[i + 1]>>]

\* mir_eval.util.boundaries_to_intervals, the library function that
\* from_boundaries calls: it refuses boundaries that are not unique and
\* ascending, and pairs the adjacent ones otherwise.
boundaries_to_intervals(boundaries) ==
    IF np_allclose(boundaries, np_unique(boundaries)) # "True"
    THEN [err |-> "ValueError", val |-> <<>>]
    ELSE [err |-> "", val |-> AdjacentPairs(boundaries)]

\* Segmentation.from_boundaries(boundaries, labels, name).
from_boundaries(boundaries, labels, name) ==
    LET r == boundaries_to_intervals(sorted(boundaries))
    IN  IF r.err # "" THEN [err |-> r.err, val |-> <<>>]
        ELSE from_intervals(r.val, labels, name)

\* --------------------------------------------------------------- Hierarchy
\* A check that compares the end of each layer only.
Hierarchy_post_init_end_only(start, end, name, layers) ==
    LET st == IF layers # <<>> THEN layers[1].start ELSE start
        en == IF layers # <<>> THEN layers[1].end ELSE end
    IN  IF \E i \in 1..Len(layers) : layers[i].end # en
        THEN [err |-> "ValueError", val |-> <<>>]
        ELSE [err |-> "",
              val |-> <<[start |-> st, end |-> en, name |-> name,
                         layers |-> layers]>>]

\* A __post_init__ that stores the layers in reverse order.
Hierarchy_post_init_reversed(start, end, name, layers) ==
    LET st == IF layers # <<>> THEN layers[1].start ELSE start
        en == IF layers # <<>> THEN layers[1].end ELSE end
    IN  IF \E i \in 1..Len(layers) : layers[i].start # st \/ layers[i].end # en
        THEN [err |-> "ValueError", val |-> <<>>]
        ELSE [err |-> "",
              val |-> <<[start |-> st, end |-> en, name |-> name,
                         layers |-> [i \in 1..Len(layers) |->
                                        layers[Len(layers) + 1 - i]]]>>]

\* Hierarchy(start, end, name, layers): the dataclass __init__ followed by
\* Hierarchy.__post_init__.
Hierarchy_post_init(start, end, name, layers) ==
    LET st == IF layers # <<>> THEN layers[1].start ELSE start
        en == IF layers # <<>> THEN layers[1].end ELSE end
    IN  IF \E i \in 1..Len(layers) : layers[i].start # st \/ layers[i].end # en
        THEN [err |-> "ValueError", val |-> <<>>]
        ELSE [err |-> "",
              val |-> <<[start |-> st, end |-> en, name |-> name,
                         layers |-> layers]>>]

\* The arguments of the ValueError that Hierarchy.__post_init__ raises: one
\* fixed sentence, nothing interpolated.
Hierarchy_error_args(layers) ==
    <<"All layers must have the same start and end time.">>

\* Hierarchy.__getitem__
Hierarchy_getitem(h, lvl_idx) == list_getitem(h.layers, lvl_idx)

\* Hierarchy.__len__, .itvls, .labels and .bdrys: the Segmentation accessor
\* mapped over the layers.
Hierarchy_len(h) == Len(h.layers)

Hierarchy_itvls(h) == [i \in 1..Len(h.layers) |-> Segmentation_itvls(h.layers[i])]

Hierarchy_labels(h) == [i \in 1..Len(h.layers) |-> Segmentation_labels(h.layers[i])]

Hierarchy_bdrys(h) == [i \in 1..Len(h.layers) |-> Segmentation_bdrys(h.layers[i])]

\* A matplotlib Axes as plt.subplots() returns it: no title, nothing drawn.
NoAxes == [title |-> "", patches |-> 0, texts |-> 0, yticklabels |-> <<>>]

\* Segmentation.plot: it calls viz.plot_segment with the keywords label_text
\* and title, which plot_segment does not accept, so the call raises
\* TypeError before anything is drawn.
Segmentation_plot(seg, axes) == [err |-> "TypeError", axes |-> axes]

\* Hierarchy.plot(ax=None, style_map=None): new axes; with no layers it
\* returns them at once.  Otherwise label_style_dict is given every non-empty
\* segment name (np.concatenate raises ValueError when there is none) and the
\* first layer is plotted, which raises.
Hierarchy_plot(h) ==
    IF h.layers = <<>> THEN [err |-> "", axes |-> NoAxes]
    ELSE IF \A i \in 1..Len(h.layers) :
                \A j \in 1..Len(h.layers[i].segments) :
                    h.layers[i].segments[j].name \in {None, Some("")}
         THEN [err |-> "ValueError", axes |-> NoAxes]
         ELSE [err |-> Segmentation_plot(h.layers[1], NoAxes).err, axes |-> NoAxes]

\* ------------------------------------------------------------ bnl.data.base
\* A path is the sequence of its components; a component is a stem (a
\* sequence of characters, or one word standing for a run of letters) and a
\* suffix.  A str given for a directory may hold empty components (a doubled
\* or trailing separator).
Name(word) == [stem |-> <<word>>, suffix |-> ""]
EmptyName == [stem |-> <<>>, suffix |-> ""]

\* pathlib.Path(s): repeated and trailing separators are dropped.
Path(s) ==
    LET keep == {i \in 1..Len(s) : s[i] # EmptyName}
        RECURSIVE Collect(_, _)
        Collect(i, acc) ==
            IF i > Len(s) THEN acc
            ELSE Collect(i + 1, IF i \in keep THEN Append(acc, s[i]) ELSE acc)
    IN  Collect(1, <<>>)

\* path / name
Join(path, name) == Append(path, name)

\* Path.home()
Path_home == <<Name("~")>>

\* DatasetConfig.__post_init__
DatasetConfig_post_init(data_root, salami_annotations_dir, salami_audio_dir, adobe_estimations_dir) ==
    LET root == IF data_root = None THEN Join(Path_home, Name("data"))
                ELSE Path(data_root[1])
    IN  [data_root |-> root,
         salami_annotations_dir |->
             IF salami_annotations_dir = None THEN Join(root, Name("salami-jams"))
             ELSE Path(salami_annotations_dir[1]),
         salami_audio_dir |->
             IF salami_audio_dir = None
             THEN Join(Join(root, Name("salami")), Name("audio"))
             ELSE Path(salami_audio_dir[1]),
         adobe_estimations_dir |->
             IF adobe_estimations_dir = None THEN Join(root, Name("adobe"))
             ELSE Path(adobe_estimations_dir[1])]

\* _default_config = DatasetConfig()
DefaultConfig == DatasetConfig_post_init(None, None, None, None)

\* BaseTrack.__post_init__: nothing is loaded.  `reads` counts the calls of
\* jams.load that returned an object for this track and `dicts` the info
\* dictionaries built for it; they number the objects, so that two loads
\* give two different objects.
BaseTrack_post_init(track_id, audio_path, jams_path) ==
    [track_id |-> track_id, audio_path |-> audio_path, jams_path |-> jams_path,
     _jams |-> None, _info |-> None, reads |-> 0, dicts |-> 0]

\* What jams.load may find at jams_path: the file_metadata of a JAMS file.
JamsFiles ==
    {[artist |-> <<"A", "_", "B">>, title |-> <<"T", "_">>, duration |-> 3],
     [artist |-> <<>>, title |-> <<>>, duration |-> 0]}

\* str.replace("_", " ")
replace_underscore(s) == [i \in 1..Len(s) |-> IF s[i] = "_" THEN " " ELSE s[i]]

\* The jams property loading the file on every access.
BaseTrack_jams_reload(tr, file) ==
    IF tr.jams_path = None
    THEN [err |-> "ValueError", self |-> tr, val |-> None]
    ELSE IF file = <<>>
    THEN [err |-> "OSError", self |-> tr, val |-> None]
    ELSE LET obj == [id |-> tr.reads + 1, file_metadata |-> file[1]]
         IN  [err |-> "",
              self |-> [tr EXCEPT !._jams = Some(obj), !.reads = @ + 1],
              val |-> Some(obj)]

\* BaseTrack.jams: `file` is what jams.load finds, <<>> when it raises.
BaseTrack_jams(tr, file) ==
    IF tr._jams # None
    THEN [err |-> "", self |-> tr, val |-> tr._jams]
    ELSE IF tr.jams_path = None
    THEN [err |-> "ValueError", self |-> tr, val |-> None]
    ELSE IF file = <<>>
    THEN [err |-> "OSError", self |-> tr, val |-> None]
    ELSE LET obj == [id |-> tr.reads + 1, file_metadata |-> file[1]]
         IN  [err |-> "",
              self |-> [tr EXCEPT !._jams = Some(obj), !.reads = @ + 1],
              val |-> Some(obj)]

\* BaseTrack.info
BaseTrack_info(tr, file) ==
    IF tr._info # None
    THEN [err |-> "", self |-> tr, val |-> tr._info]
    ELSE LET j == BaseTrack_jams(tr, file)
         IN  IF j.err # "" THEN [err |-> j.err, self |-> j.self, val |-> None]
             ELSE LET metadata == j.val[1].file_metadata
                      info == [id |-> tr.dicts + 1,
                               artist |-> replace_underscore(metadata.artist),
                               title |-> replace_underscore(metadata.title),
                               duration |-> metadata.duration]
                  IN  [err |-> "",
                       self |-> [j.self EXCEPT !._info = Some(info), !.dicts = @ + 1],
                       val |-> Some(info)]

\* No track has been built yet.
NoTrack == <<>>

\* ---------------------------------------------------------- bnl.data.salami
\* A file system is the set of the paths that exist in it.
exists(path, fs) == path \in fs

\* The characters the model tells apart: ASCII decimal digits, the
\* superscript two (a digit for str.isdigit, not a decimal for int), and a
\* letter.
Decimal == <<"0", "1", "2", "3", "4", "5", "6", "7", "8", "9">>
AsciiDigits == {Decimal[i] : i \in 1..Len(Decimal)}
DigitChars == AsciiDigits \cup {"SUPERSCRIPT TWO"}

\* str.isdigit(): non-empty and every character has the Unicode digit
\* property.
isdigit(s) == s # <<>> /\ \A i \in 1..Len(s) : s[i] \in DigitChars

\* int(s) of a str of digits: ValueError unless every character is a
\* decimal digit; leading zeros are accepted.
int(s) ==
    LET RECURSIVE Value(_, _)
        Value(i, acc) ==
            IF i > Len(s) THEN acc
            ELSE Value(i + 1, 10 * acc
                       + (CHOOSE d \in 0..9 : Decimal[d + 1] = s[i]))
    IN  IF s = <<>> \/ \E i \in 1..Len(s) : s[i] \notin AsciiDigits
        THEN [err |-> "ValueError", val |-> 0]
        ELSE [err |-> "", val |-> Value(1, 0)]

\* track_dir / f"audio{ext}" and annotations_dir / f"{track_id}.jams"
File(stem, suffix) == [stem |-> stem, suffix |-> suffix]

audio_extensions == <<".mp3", ".wav", ".flac", ".m4a">>

\* find_audio_file trying the extensions last to first.
find_audio_file_reversed(track_id, audio_dir, fs) ==
    LET track_dir == Join(audio_dir, File(track_id, ""))
        found == {i \in 1..Len(audio_extensions) :
                     exists(Join(track_dir, File(<<"audio">>, audio_extensions[i])), fs)}
    IN  IF ~exists(track_dir, fs) \/ found = {} THEN None
        ELSE LET i == CHOOSE k \in found : \A m \in found : m <= k
             IN  Some(Join(track_dir, File(<<"audio">>, audio_extensions[i])))

\* find_audio_file(track_id, audio_dir)
find_audio_file(track_id, audio_dir, fs) ==
    LET track_dir == Join(audio_dir, File(track_id, ""))
        found == {i \in 1..Len(audio_extensions) :
                     exists(Join(track_dir, File(<<"audio">>, audio_extensions[i])), fs)}
    IN  IF ~exists(track_dir, fs) THEN None
        ELSE IF found = {} THEN None
        ELSE LET i == CHOOSE k \in found : \A m \in found : k <= m
             IN  Some(Join(track_dir, File(<<"audio">>, audio_extensions[i])))

\* load_track reading the directories of the configuration the module was
\* imported with.
load_track_import_config(track_id, config, fs) ==
    LET jams_path == Join(DefaultConfig.salami_annotations_dir, File(track_id, ".jams"))
    IN  IF ~exists(jams_path, fs)
        THEN [err |-> "FileNotFoundError", val |-> <<>>]
        ELSE [err |-> "",
              val |-> <<BaseTrack_post_init(
                           track_id,
                           find_audio_file(track_id, DefaultConfig.salami_audio_dir, fs),
                           Some(jams_path))>>]

\* load_track(track_id), config being what get_config() returns.
load_track(track_id, config, fs) ==
    LET jams_path == Join(config.salami_annotations_dir, File(track_id, ".jams"))
    IN  IF ~exists(jams_path, fs)
        THEN [err |-> "FileNotFoundError", val |-> <<>>]
        ELSE [err |-> "",
              val |-> <<BaseTrack_post_init(
                           track_id,
                           find_audio_file(track_id, config.salami_audio_dir, fs),
                           Some(jams_path))>>]

\* load_tracks letting the first FileNotFoundError end the loop.
load_tracks_stop_at_missing(track_ids, config, fs) ==
    LET RECURSIVE Loop(_, _)
        Loop(i, tracks) ==
            IF i > Len(track_ids) THEN tracks
            ELSE LET r == load_track(track_ids[i], config, fs)
                 IN  IF r.err = "" THEN Loop(i + 1, Append(tracks, r.val[1]))
                     ELSE tracks
    IN  [err |-> "", val |-> Loop(1, <<>>)]

\* load_tracks(track_ids): FileNotFoundError is caught and the id skipped.
load_tracks(track_ids, config, fs) ==
    LET RECURSIVE Loop(_, _)
        Loop(i, tracks) ==
            IF i > Len(track_ids) THEN tracks
            ELSE LET r == load_track(track_ids[i], config, fs)
                 IN  IF r.err = "" THEN Loop(i + 1, Append(tracks, r.val[1]))
                     ELSE Loop(i + 1, tracks)
    IN  [err |-> "", val |-> Loop(1, <<>>)]

\* annotations_dir.glob("*.jams"): the entries of the directory whose name
\* ends in .jams, in no particular order.
glob_jams(dir, fs) ==
    {path \in fs : /\ Len(path) = Len(dir) + 1
                   /\ SubSeq(path, 1, Len(dir)) = dir
                   /\ path[Len(path)].suffix = ".jams"}

\* list.sort(key=int): a stable insertion by int value, ValueError when int
\* rejects an element.
sort_key_int(track_ids) ==
    LET RECURSIVE Insert(_, _)
        Insert(x, s) ==
            IF s = <<>> THEN <<x>>
            ELSE IF int(x).val <= int(s[1]).val THEN <<x>> \o s
            ELSE <<s[1]>> \o Insert(x, Tail(s))
        RECURSIVE From(_, _)
        From(done, rest) ==
            IF rest = <<>> THEN done
            ELSE From(Insert(rest[Len(rest)], done), SubSeq(rest, 1, Len(rest) - 1))
    IN  IF \E i \in 1..Len(track_ids) : int(track_ids[i]).err # ""
        THEN [err |-> "ValueError", val |-> <<>>]
        ELSE [err |-> "", val |-> From(<<>>, track_ids)]

\* list_tids(): `order` is the order in which glob yields the entries.
list_tids(config, fs, order) ==
    LET annotations_dir == config.salami_annotations_dir
        RECURSIVE Stems(_, _)
        Stems(i, acc) ==
            IF i > Len(order) THEN acc
            ELSE Stems(i + 1, IF isdigit(order[i][Len(order[i])].stem)
                              THEN Append(acc, order[i][Len(order[i])].stem)
                              ELSE acc)
    IN  IF ~exists(annotations_dir, fs) THEN [err |-> "", val |-> <<>>]
        ELSE sort_key_int(Stems(1, <<>>))

\* set_config(config): the module-level name is rebound.
set_config(current, config) == config

\* get_config()
get_config(current) == current

\* ------------------------------------------------- bnl.viz.label_style_dict
\* Labels are numbered in the order np.unique puts them in: seg_map, a dict
\* keyed by label, is a function on a set of such numbers, and a style (a
\* dict of matplotlib properties) is a function on property names.
hatchs == <<"", "..", "O.", "*", "xx", "xxO", "\\O", "oo", "\\">>
more_hatchs == [i \in 1..Len(hatchs) |-> hatchs[i] \o "--"]

\* plt.get_cmap("tab10").colors and plt.get_cmap("tab20").colors: 10 and 20
\* colours.
tab10 == [i \in 1..10 |-> "tab10." \o ToString(i - 1)]
tab20 == [i \in 1..20 |-> "tab20." \o ToString(i - 1)]

\* cycler(hatch=h) * cycler(color=c): every hatch with every colour, the
\* colour varying fastest.
cycler_product(h, c) ==
    [k \in 1..(Len(h) * Len(c)) |->
        [hatch |-> h[((k - 1) \div Len(c)) + 1], color |-> c[((k - 1) % Len(c)) + 1]]]

\* dict.update
update(d, other) ==
    [k \in DOMAIN d \cup DOMAIN other |-> IF k \in DOMAIN other THEN other[k] ELSE d[k]]

\* np.unique(np.concatenate(...)): the distinct labels, ascending.
unique_labels(labels) ==
    LET S == {labels[i] : i \in 1..Len(labels)}
        lo == CHOOSE x \in S : \A y \in S : x <= y
        hi == CHOOSE x \in S : \A y \in S : y <= x
        Given(x) == x \in S
    IN  IF S = {} THEN <<>>
        ELSE SelectSeq([i \in 1..(hi - lo + 1) |-> lo + i - 1], Given)

\* The style cycle that stops after its last combination for any number of
\* labels.
p_cycler_finite(n) ==
    IF n <= 80
    THEN [combos |-> cycler_product(hatchs, tab10), cycles |-> FALSE]
    ELSE [combos |-> cycler_product(hatchs \o more_hatchs, tab20), cycles |-> FALSE]

\* p_cycler for n distinct labels: 9 x 10 combinations up to 80 labels,
\* otherwise 18 x 20 combinations repeated by itertools.cycle.
p_cycler(n) ==
    IF n <= 80
    THEN [combos |-> cycler_product(hatchs, tab10), cycles |-> FALSE]
    ELSE [combos |-> cycler_product(hatchs \o more_hatchs, tab20), cycles |-> TRUE]

\* label_style_dict(labels, boundary_color, **kwargs)
label_style_dict(labels, boundary_color, kwargs) ==
    IF labels = <<>> THEN [err |-> "ValueError", val |-> <<>>]
    ELSE
    LET uniq == unique_labels(labels)
        cyc == p_cycler(Len(uniq))
        zipped == IF cyc.cycles THEN Len(uniq) ELSE Min(Len(uniq), Len(cyc.combos))
        properties(k) == cyc.combos[((k - 1) % Len(cyc.combos)) + 1]
        style(k) == [facecolor |-> properties(k).color, hatch |-> properties(k).hatch]
        entry(k) ==
            update(update(update([linewidth |-> 1, edgecolor |-> boundary_color],
                                 style(k)),
                          kwargs),
                   [label |-> uniq[k]])
    IN  [err |-> "",
         val |-> [lab \in {uniq[k] : k \in 1..zipped} |->
                     entry(CHOOSE k \in 1..zipped : uniq[k] = lab)]]

\* ------------------------------------------------------------ text Segment
\* A Segment check that lets start == end through.
Segment_post_init_lenient(start, end, text, label) ==
    IF start > end
    THEN [err |-> "ValueError", val |-> <<>>]
    ELSE [err |-> "",
          val |-> <<[start |-> start, end |-> end, text |-> text, label |-> label]>>]

\* Segment(start, end, text, label) of bnl/core/segment.py: the dataclass
\* __init__ followed by __post_init__.
Segment_post_init(start, end, text, label) ==
    IF start >= end
    THEN [err |-> "ValueError", val |-> <<>>]
    ELSE [err |-> "",
          val |-> <<[start |-> start, end |-> end, text |-> text, label |-> label]>>]

\* Segment.__len__
Segment_len(segment) == segment.end - segment.start

\* Segment.__contains__
Segment_contains(segment, position) ==
    segment.start <= position /\ position < segment.end

\* ----------------------------------------------------------------- inputs
\* Character positions of a text Segment.
Positions == 0..MaxTime

\* Names given to aggregates.
AggNames == {None, Some("S")}

\* Explicit (start, end) arguments of an aggregate; <<0, 0>> is the default.
Extents == {<<0, 0>>, <<0, MaxTime>>, <<MaxTime, 0>>}

SpanLists == SeqsUpTo(Spans, MaxSpans)

\* Arguments of Segmentation(...): every span list with the default extent
\* and no name, and the lists of at most two spans with every extent and name.
SegmentationArgs ==
    (SpanLists \X {<<0, 0>>} \X {None})
        \cup (SeqsUpTo(Spans, 2) \X Extents \X AggNames)

\* Interval pairs: every pair with start <= end, and one reversed pair.
Pairs == {p \in Times \X Times : p[1] <= p[2]} \cup {<<MaxTime, 0>>}

IntervalLists == SeqsUpTo(Pairs, MaxSpans)

\* The k-th label of an explicit label list.
LabelAt(k) == "L" \o ToString(k)

\* labels arguments: None, or the list L1..Lk for k up to MaxSpans + 1.
LabelArgs ==
    {None} \cup {Some([i \in 1..k |-> Some(LabelAt(i))]) : k \in 0..(MaxSpans + 1)}

BoundaryLists == SeqsUpTo(Times, MaxSpans + 1)

\* Segmentations that exist: those from_boundaries builds from every set of
\* boundaries (ascending) and from a repeated boundary, with and without a
\* name, and the empty ones built with an explicit extent.
SegPool ==
    {r.val[1] : r \in {x \in {from_boundaries(SetToSortedSeq(B), None, n) :
                                <<B, n>> \in (SUBSET Times) \X AggNames}
                             \cup {from_boundaries(<<t, t>>, None, None) : t \in Times}
                             \cup {Segmentation_post_init(e[1], e[2], None, <<>>) :
                                        e \in Extents} :
                        x.err = ""}}

LayerLists == SeqsUpTo(SegPool, MaxLayers)

\* Arguments of Hierarchy(...): every layer list with the default extent,
\* and the lists of at most one layer with every extent.
HierarchyArgs ==
    (LayerLists \X {<<0, 0>>} \X AggNames)
        \cup (SeqsUpTo(SegPool, 1) \X Extents \X AggNames)

\* Hierarchies that exist: everything Hierarchy(...) builds from
\* HierarchyArgs.
HierPool ==
    {r.val[1] : r \in {x \in {Hierarchy_post_init(a[2][1], a[2][2], a[3], a[1]) :
                                a \in HierarchyArgs} :
                        x.err = ""}}

\* ------------------------------------------------------------------ state
NoArgs ==
    [start |-> 0, end |-> 0, name |-> None, segments |-> <<>>,
     intervals |-> <<>>, labels |-> None, boundaries |-> <<>>, layers |-> <<>>,
     self |-> <<>>, index |-> 0, text |-> "",
     config |-> <<>>, fs |-> {}, order |-> <<>>, track_id |-> <<>>,
     track_ids |-> <<>>, audio_dir |-> <<>>,
     boundary_color |-> "", kwargs |-> <<>>]

NoRet ==
    [err |-> "", span |-> <<>>, seg |-> <<>>, hier |-> <<>>, eq |-> FALSE,
     msg |-> <<>>, axes |-> NoAxes, segment |-> <<>>,
     self |-> <<>>, n |-> 0, names |-> <<>>, rows |-> <<>>, nums |-> <<>>,
     str |-> "", shared |-> FALSE,
     config |-> <<>>, tracks |-> <<>>, tids |-> <<>>, path |-> None,
     seg_map |-> <<>>, jams |-> None, info |-> None]

Init ==
    /\ pc = "idle"
    /\ op = "none"
    /\ args = NoArgs
    /\ ret = NoRet
    /\ _default_config = DefaultConfig
    /\ track = NoTrack

\* TimeSpan(start=s, end=e, name=n)
NewTimeSpan ==
    /\ pc = "idle"
    /\ \E s \in Times, e \in Times, n \in SpanNames :
         LET r == TimeSpan_post_init(s, e, n)
         IN  /\ args' = [NoArgs EXCEPT !.start = s, !.end = e, !.name = n]
             /\ ret' = [NoRet EXCEPT !.err = r.err, !.span = r.val]
    /\ op' = "TimeSpan"
    /\ pc' = "done"
    /\ UNCHANGED datavars

\* Segmentation(start=.., end=.., name=.., segments=..)
NewSegmentation ==
    /\ pc = "idle"
    /\ \E a \in SegmentationArgs :
         LET r == Segmentation_post_init(a[2][1], a[2][2], a[3], a[1])
         IN  /\ args' = [NoArgs EXCEPT !.start = a[2][1], !.end = a[2][2],
                                       !.name = a[3], !.segments = a[1]]
             /\ ret' = [NoRet EXCEPT !.err = r.err, !.seg = r.val]
    /\ op' = "Segmentation"
    /\ pc' = "done"
    /\ UNCHANGED datavars

\* Segmentation.from_intervals(intervals, labels, name)
FromIntervals ==
    /\ pc = "idle"
    /\ \E iv \in IntervalLists, l \in LabelArgs, n \in AggNames :
         LET r == from_intervals(iv, l, n)
         IN  /\ args' = [NoArgs EXCEPT !.intervals = iv, !.labels = l, !.name = n]
             /\ ret' = [NoRet EXCEPT !.err = r.err, !.seg = r.val]
    /\ op' = "from_intervals"
    /\ pc' = "done"
    /\ UNCHANGED datavars

\* Segmentation.from_boundaries(boundaries, labels, name)
FromBoundaries ==
    /\ pc = "idle"
    /\ \E b \in BoundaryLists, l \in LabelArgs, n \in AggNames :
         LET r == from_boundaries(b, l, n)
         IN  /\ args' = [NoArgs EXCEPT !.boundaries = b, !.labels = l, !.name = n]
             /\ ret' = [NoRet EXCEPT !.err = r.err, !.seg = r.val]
    /\ op' = "from_boundaries"
    /\ pc' = "done"
    /\ UNCHANGED datavars

\* Hierarchy(start=.., end=.., name=.., layers=..)
NewHierarchy ==
    /\ pc = "idle"
    /\ \E a \in HierarchyArgs :
         LET r == Hierarchy_post_init(a[2][1], a[2][2], a[3], a[1])
         IN  /\ args' = [NoArgs EXCEPT !.start = a[2][1], !.end = a[2][2],
                                       !.name = a[3], !.layers = a[1]]
             /\ ret' = [NoRet EXCEPT !.err = r.err, !.hier = r.val,
                                     !.msg = IF r.err = "" THEN <<>>
                                             ELSE Hierarchy_error_args(a[1])]
    /\ op' = "Hierarchy"
    /\ pc' = "done"
    /\ UNCHANGED datavars

\* a == b for two Segmentations a and b
CompareSegmentations ==
    /\ pc = "idle"
    /\ \E a \in SegPool, b \in SegPool :
         /\ args' = [NoArgs EXCEPT !.layers = <<a, b>>]
         /\ ret' = [NoRet EXCEPT !.eq = Segmentation_eq(a, b)]
    /\ op' = "eq"
    /\ pc' = "done"
    /\ UNCHANGED datavars

\* h.plot() for a Hierarchy h
HierarchyPlot ==
    /\ pc = "idle"
    /\ \E h \in HierPool :
         LET r == Hierarchy_plot(h)
         IN  /\ args' = [NoArgs EXCEPT !.self = <<h>>]
             /\ ret' = [NoRet EXCEPT !.err = r.err, !.axes = r.axes, !.self = <<h>>]
    /\ op' = "Hierarchy.plot"
    /\ pc' = "done"
    /\ UNCHANGED datavars

\* Segment(start=s, end=e, text=x, label=l)
NewSegment ==
    /\ pc = "idle"
    /\ \E s \in Positions, e \in Positions, x \in {"", "Hello world"}, l \in SpanNames :
         LET r == Segment_post_init(s, e, x, l)
         IN  /\ args' = [NoArgs EXCEPT !.start = s, !.end = e, !.text = x, !.name = l]
             /\ ret' = [NoRet EXCEPT !.err = r.err, !.segment = r.val]
    /\ op' = "Segment"
    /\ pc' = "done"
    /\ UNCHANGED datavars

\* The call has returned (or raised); the session makes its next call.
Return ==
    /\ pc = "done"
    /\ pc' = "idle"
    /\ op' = "none"
    /\ args' = NoArgs
    /\ ret' = NoRet
    /\ UNCHANGED datavars

Next ==
    \/ NewTimeSpan
    \/ NewSegmentation
    \/ FromIntervals
    \/ FromBoundaries
    \/ NewHierarchy
    \/ CompareSegmentations
    \/ HierarchyPlot
    \/ NewSegment
    \/ Return

Spec == Init /\ [][Next]_vars

\* ------------------------------------------------- reading a live instance
\* A session that holds one instance and reads it again and again: args.self
\* is the instance as it was when the session took hold of it, ret.self the
\* instance as it is now, and the other fields of ret are what the last read
\* returned.
IsSegmentation(x) == "segments" \in DOMAIN x
IsHierarchy(x) == "layers" \in DOMAIN x
IsTimeSpan(x) == ~IsSegmentation(x) /\ ~IsHierarchy(x)

\* Indices handed to __getitem__.
Indexes == (0 - MaxSpans - 1)..(MaxSpans + 1)

\* A read that hands out the instance's own list object.
NewList_shared(vals) == [val |-> vals, shared |-> TRUE]

\* A list comprehension, or a list literal extended in place, builds a list
\* object of its own: shared tells whether the list returned is a list object
\* the instance holds.
NewList(vals) == [val |-> vals, shared |-> FALSE]

\* f"{t:.2f}" for t a multiple of 0.5 s, possibly negative.
FmtTime2(t) ==
    LET a == IF t < 0 THEN 0 - t ELSE t
    IN  (IF t < 0 THEN "-" ELSE "") \o ToString(a \div 2) \o "."
            \o (IF a % 2 = 0 THEN "00" ELSE "50")

TimeSpan_repr(span) ==
    "TimeSpan(" \o TimeSpan_str(span.start, span.end, span.name) \o ")"

Segmentation_repr(seg) ==
    "Segmentation(" \o ToString(Segmentation_len(seg)) \o " segments over "
        \o FmtTime2(seg.end - seg.start) \o "s)"

Segmentation_str(seg) ==
    IF Segmentation_len(seg) = 0 THEN "Segmentation(0 segments): []"
    ELSE Segmentation_repr(seg)

Hierarchy_repr(h) ==
    "Hierarchy(" \o ToString(Hierarchy_len(h)) \o " levels over "
        \o FmtTime2(h.start) \o "s-" \o FmtTime2(h.end) \o "s)"

Hierarchy_str(h) ==
    IF Hierarchy_len(h) = 0 THEN "Hierarchy(0 levels)" ELSE Hierarchy_repr(h)

\* The session takes hold of an instance that exists.
Hold ==
    /\ pc = "idle"
    /\ \E x \in Spans \cup SegPool \cup HierPool :
         /\ args' = [NoArgs EXCEPT !.self = <<x>>]
         /\ ret' = [NoRet EXCEPT !.self = <<x>>]
    /\ op' = "hold"
    /\ pc' = "held"
    /\ UNCHANGED datavars

Holding == pc \in {"held", "done"} /\ ret.self # <<>>

\* str(span) and repr(span)
TimeSpanStr ==
    /\ Holding /\ IsTimeSpan(ret.self[1])
    /\ \E o \in {"TimeSpan.str", "TimeSpan.repr"} :
         LET span == ret.self[1]
         IN  /\ ret' = [NoRet EXCEPT !.self = ret.self,
                           !.str = IF o = "TimeSpan.str"
                                   THEN TimeSpan_str(span.start, span.end, span.name)
                                   ELSE TimeSpan_repr(span)]
             /\ op' = o
    /\ args' = [args EXCEPT !.index = 0]
    /\ pc' = "done"
    /\ UNCHANGED datavars

\* len(seg)
SegLen ==
    /\ Holding /\ IsSegmentation(ret.self[1])
    /\ ret' = [NoRet EXCEPT !.self = ret.self, !.n = Segmentation_len(ret.self[1])]
    /\ args' = [args EXCEPT !.index = 0]
    /\ op' = "Segmentation.len"
    /\ pc' = "done"
    /\ UNCHANGED datavars

\* seg[idx]
SegGetItem ==
    /\ Holding /\ IsSegmentation(ret.self[1])
    /\ \E idx \in Indexes :
         LET r == Segmentation_getitem(ret.self[1], idx)
         IN  /\ ret' = [NoRet EXCEPT !.self = ret.self, !.err = r.err, !.span = r.val]
             /\ args' = [args EXCEPT !.index = idx]
    /\ op' = "Segmentation.getitem"
    /\ pc' = "done"
    /\ UNCHANGED datavars

\* seg.labels
SegLabels ==
    /\ Holding /\ IsSegmentation(ret.self[1])
    /\ LET r == NewList(Segmentation_labels(ret.self[1]))
       IN  ret' = [NoRet EXCEPT !.self = ret.self, !.names = r.val, !.shared = r.shared]
    /\ args' = [args EXCEPT !.index = 0]
    /\ op' = "Segmentation.labels"
    /\ pc' = "done"
    /\ UNCHANGED datavars

\* seg.itvls
SegItvls ==
    /\ Holding /\ IsSegmentation(ret.self[1])
    /\ LET r == NewList(Segmentation_itvls(ret.self[1]))
       IN  ret' = [NoRet EXCEPT !.self = ret.self, !.rows = r.val, !.shared = r.shared]
    /\ args' = [args EXCEPT !.index = 0]
    /\ op' = "Segmentation.itvls"
    /\ pc' = "done"
    /\ UNCHANGED datavars

\* seg.bdrys
SegBdrys ==
    /\ Holding /\ IsSegmentation(ret.self[1])
    /\ LET r == NewList(Segmentation_bdrys(ret.self[1]))
       IN  ret' = [NoRet EXCEPT !.self = ret.self, !.nums = r.val, !.shared = r.shared]
    /\ args' = [args EXCEPT !.index = 0]
    /\ op' = "Segmentation.bdrys"
    /\ pc' = "done"
    /\ UNCHANGED datavars

\* str(seg) and repr(seg)
SegStr ==
    /\ Holding /\ IsSegmentation(ret.self[1])
    /\ \E o \in {"Segmentation.str", "Segmentation.repr"} :
         /\ ret' = [NoRet EXCEPT !.self = ret.self,
                       !.str = IF o = "Segmentation.str"
                               THEN Segmentation_str(ret.self[1])
                               ELSE Segmentation_repr(ret.self[1])]
         /\ op' = o
    /\ args' = [args EXCEPT !.index = 0]
    /\ pc' = "done"
    /\ UNCHANGED datavars

\* len(h)
HierLen ==
    /\ Holding /\ IsHierarchy(ret.self[1])
    /\ ret' = [NoRet EXCEPT !.self = ret.self, !.n = Hierarchy_len(ret.self[1])]
    /\ args' = [args EXCEPT !.index = 0]
    /\ op' = "Hierarchy.len"
    /\ pc' = "done"
    /\ UNCHANGED datavars

\* h[lvl_idx]
HierGetItem ==
    /\ Holding /\ IsHierarchy(ret.self[1])
    /\ \E idx \in Indexes :
         LET r == Hierarchy_getitem(ret.self[1], idx)
         IN  /\ ret' = [NoRet EXCEPT !.self = ret.self, !.err = r.err, !.seg = r.val]
             /\ args' = [args EXCEPT !.index = idx]
    /\ op' = "Hierarchy.getitem"
    /\ pc' = "done"
    /\ UNCHANGED datavars

\* h.labels
HierLabels ==
    /\ Holding /\ IsHierarchy(ret.self[1])
    /\ LET r == NewList(Hierarchy_labels(ret.self[1]))
       IN  ret' = [NoRet EXCEPT !.self = ret.self, !.names = r.val, !.shared = r.shared]
    /\ args' = [args EXCEPT !.index = 0]
    /\ op' = "Hierarchy.labels"
    /\ pc' = "done"
    /\ UNCHANGED datavars

\* h.itvls
HierItvls ==
    /\ Holding /\ IsHierarchy(ret.self[1])
    /\ LET r == NewList(Hierarchy_itvls(ret.self[1]))
       IN  ret' = [NoRet EXCEPT !.self = ret.self, !.rows = r.val, !.shared = r.shared]
    /\ args' = [args EXCEPT !.index = 0]
    /\ op' = "Hierarchy.itvls"
    /\ pc' = "done"
    /\ UNCHANGED datavars

\* h.bdrys
HierBdrys ==
    /\ Holding /\ IsHierarchy(ret.self[1])
    /\ LET r == NewList(Hierarchy_bdrys(ret.self[1]))
       IN  ret' = [NoRet EXCEPT !.self = ret.self, !.nums = r.val, !.shared = r.shared]
    /\ args' = [args EXCEPT !.index = 0]
    /\ op' = "Hierarchy.bdrys"
    /\ pc' = "done"
    /\ UNCHANGED datavars

\* str(h) and repr(h)
HierStr ==
    /\ Holding /\ IsHierarchy(ret.self[1])
    /\ \E o \in {"Hierarchy.str", "Hierarchy.repr"} :
         /\ ret' = [NoRet EXCEPT !.self = ret.self,
                       !.str = IF o = "Hierarchy.str"
                               THEN Hierarchy_str(ret.self[1])
                               ELSE Hierarchy_repr(ret.self[1])]
         /\ op' = o
    /\ args' = [args EXCEPT !.index = 0]
    /\ pc' = "done"
    /\ UNCHANGED datavars

ListReads ==
    {"Segmentation.labels", "Segmentation.bdrys", "Hierarchy.labels", "Hierarchy.bdrys"}

\* The caller empties the list that labels or bdrys returned (del lst[:]).
\* Were that list an object held by the instance, the instance's list would
\* be emptied with it.
ClearReturned ==
    /\ pc = "done" /\ op \in ListReads
    /\ LET x == ret.self[1]
           after == IF ~ret.shared THEN x
                    ELSE IF IsSegmentation(x) THEN [x EXCEPT !.segments = <<>>]
                    ELSE [x EXCEPT !.layers = <<>>]
       IN  ret' = [ret EXCEPT !.names = <<>>, !.nums = <<>>, !.self = <<after>>]
    /\ args' = args
    /\ op' = IF IsSegmentation(ret.self[1]) THEN "Segmentation.clear_returned"
             ELSE "Hierarchy.clear_returned"
    /\ pc' = "done"
    /\ UNCHANGED datavars

NextViews ==
    \/ Hold
    \/ TimeSpanStr
    \/ SegLen
    \/ SegGetItem
    \/ SegLabels
    \/ SegItvls
    \/ SegBdrys
    \/ SegStr
    \/ HierLen
    \/ HierGetItem
    \/ HierLabels
    \/ HierItvls
    \/ HierBdrys
    \/ HierStr
    \/ ClearReturned
    \/ Return

SpecViews == Init /\ [][NextViews]_vars



\* ------------------------------------------------------ calls into bnl.data
\* Directories a caller supplies, as str: /srv, /jams/ (trailing separator)
\* and /audio.
SuppliedDirs ==
    {<<Name("srv")>>, <<Name("jams"), EmptyName>>, <<Name("audio")>>}

OptionalDirs == {None} \cup {Some(d) : d \in SuppliedDirs}

\* The configurations handed to set_config: the default one, one with its
\* own data_root, one with its own annotation and audio directories.
ConfigPool ==
    {DefaultConfig,
     DatasetConfig_post_init(Some(<<Name("srv")>>), None, None, None),
     DatasetConfig_post_init(None, Some(<<Name("jams"), EmptyName>>),
                             Some(<<Name("audio")>>), None)}

\* A directory and everything above it.
Ancestors(dir) == {SubSeq(dir, 1, k) : k \in 1..Len(dir)}

\* Entries found in a directory of annotations.
Entries ==
    {File(<<"2">>, ".jams"), File(<<"1", "0">>, ".jams"), File(<<"0", "2">>, ".jams"),
     File(<<"x">>, ".jams"), File(<<"3">>, ".txt"),
     File(<<"SUPERSCRIPT TWO">>, ".jams")}

EntrySets == {S \in SUBSET Entries : Cardinality(S) <= MaxFiles}

\* File systems for list_tids: nothing at all, or the annotation directory
\* of one of the configurations with some entries in it.
ListingFileSystems ==
    {{}} \cup {Ancestors(c.salami_annotations_dir)
                  \cup {Join(c.salami_annotations_dir, e) : e \in S} :
               <<c, S>> \in ConfigPool \X EntrySets}

TrackIds == {<<"1">>, <<"2">>, <<"x">>}

\* File systems for find_audio_file: no track directory, or the directory
\* of track 1 holding any of the four audio files and a stray one.
AudioFileSystems(audio_dir) ==
    {Ancestors(audio_dir)} \cup
    {Ancestors(Join(audio_dir, File(<<"1">>, "")))
        \cup {Join(Join(audio_dir, File(<<"1">>, "")), File(<<"audio">>, x)) : x \in X} :
     X \in SUBSET ({audio_extensions[i] : i \in 1..Len(audio_extensions)} \cup {".ogg"})}

\* File systems for load_track: the directories of one configuration, with
\* the annotations of some tracks and possibly audio for track 1.
LoadingFileSystems ==
    {Ancestors(c.salami_annotations_dir)
        \cup {Join(c.salami_annotations_dir, File(id, ".jams")) : id \in S}
        \cup A :
     <<c, S, A>> \in {x \in ConfigPool \X (SUBSET {<<"1">>, <<"2">>})
                              \X UNION {AudioFileSystems(k.salami_audio_dir) : k \in ConfigPool} :
                         /\ x[3] \in AudioFileSystems(x[1].salami_audio_dir)
                         /\ \A p \in x[3] :
                               p[Len(p)].suffix \in {"", ".wav", ".flac"}}}

\* DatasetConfig(data_root=.., salami_annotations_dir=.., ..)
NewDatasetConfig ==
    /\ pc = "idle"
    /\ \E r \in OptionalDirs, j \in OptionalDirs, a \in OptionalDirs, e \in OptionalDirs :
         /\ args' = [NoArgs EXCEPT !.config = <<r, j, a, e>>]
         /\ ret' = [NoRet EXCEPT !.config = <<DatasetConfig_post_init(r, j, a, e)>>]
    /\ op' = "DatasetConfig"
    /\ pc' = "done"
    /\ UNCHANGED datavars

\* set_config(config)
SetConfig ==
    /\ pc = "idle"
    /\ \E c \in ConfigPool :
         /\ args' = [NoArgs EXCEPT !.config = <<c>>]
         /\ _default_config' = set_config(_default_config, c)
    /\ ret' = NoRet
    /\ op' = "set_config"
    /\ pc' = "done"
    /\ UNCHANGED track

\* get_config()
GetConfig ==
    /\ pc = "idle"
    /\ args' = NoArgs
    /\ ret' = [NoRet EXCEPT !.config = <<get_config(_default_config)>>]
    /\ op' = "get_config"
    /\ pc' = "done"
    /\ UNCHANGED datavars

\* find_audio_file(track_id, audio_dir)
FindAudioFile ==
    /\ pc = "idle"
    /\ \E id \in {<<"1">>, <<"2">>}, dir \in {<<Name("audio")>>, <<Name("missing")>>} :
         \E fs \in AudioFileSystems(<<Name("audio")>>) :
            /\ args' = [NoArgs EXCEPT !.track_id = id, !.audio_dir = dir, !.fs = fs]
            /\ ret' = [NoRet EXCEPT !.path = find_audio_file(id, dir, fs)]
    /\ op' = "find_audio_file"
    /\ pc' = "done"
    /\ UNCHANGED datavars

\* load_track(track_id)
LoadTrack ==
    /\ pc = "idle"
    /\ \E id \in TrackIds, fs \in LoadingFileSystems :
         LET r == load_track(id, get_config(_default_config), fs)
         IN  /\ args' = [NoArgs EXCEPT !.track_id = id, !.fs = fs]
             /\ ret' = [NoRet EXCEPT !.err = r.err, !.tracks = r.val]
    /\ op' = "load_track"
    /\ pc' = "done"
    /\ UNCHANGED datavars

\* load_tracks(track_ids)
LoadTracks ==
    /\ pc = "idle"
    /\ \E ids \in SeqsUpTo(TrackIds, MaxIds), fs \in LoadingFileSystems :
         LET r == load_tracks(ids, get_config(_default_config), fs)
         IN  /\ args' = [NoArgs EXCEPT !.track_ids = ids, !.fs = fs]
             /\ ret' = [NoRet EXCEPT !.err = r.err, !.tracks = r.val]
    /\ op' = "load_tracks"
    /\ pc' = "done"
    /\ UNCHANGED datavars

\* list_tids(): glob yields the entries in any order.
ListTids ==
    /\ pc = "idle"
    /\ \E fs \in ListingFileSystems :
         LET config == get_config(_default_config)
             found == glob_jams(config.salami_annotations_dir, fs)
         IN  \E order \in {s \in [1..Cardinality(found) -> found] :
                              \A i, j \in 1..Cardinality(found) : i # j => s[i] # s[j]} :
                LET r == list_tids(config, fs, order)
                IN  /\ args' = [NoArgs EXCEPT !.fs = fs, !.order = order]
                    /\ ret' = [NoRet EXCEPT !.err = r.err, !.tids = r.val]
    /\ op' = "list_tids"
    /\ pc' = "done"
    /\ UNCHANGED datavars

NextData ==
    \/ NewDatasetConfig
    \/ SetConfig
    \/ GetConfig
    \/ FindAudioFile
    \/ LoadTrack
    \/ LoadTracks
    \/ ListTids
    \/ Return

SpecData == Init /\ [][NextData]_vars

\* ------------------------------------------------------- calls into bnl.viz
\* Numbers of distinct labels around the places where the code changes its
\* behaviour: none, a few, the switch of palette after 80, the 90
\* combinations of the small palette, the 360 of the large one.
LabelCounts ==
    {n \in 0..MaxLabels : \/ n <= 3
                          \/ (n >= 79 /\ n <= 82)
                          \/ (n >= 89 /\ n <= 92)
                          \/ n >= 359}

\* n distinct labels given last to first, the first d of them once more.
LabelList(n, d) == [i \in 1..n |-> n + 1 - i] \o [i \in 1..Min(n, d) |-> i]

\* **kwargs of the caller, by case.
KwargsAt(k) ==
    CASE k = 1 -> [edgecolor |-> "black"]
      [] k = 2 -> [hatch |-> "//", linewidth |-> 3]
      [] k = 3 -> [label |-> 0, facecolor |-> "k"]
      [] OTHER -> [k0 \in {} |-> 0]

\* label_style_dict(labels, boundary_color=.., **kwargs)
LabelStyleDict ==
    /\ pc = "idle"
    /\ \E n \in LabelCounts, d \in {0, 2}, k \in 0..3, bc \in {"white", "red"} :
         LET r == label_style_dict(LabelList(n, d), bc, KwargsAt(k))
         IN  /\ args' = [NoArgs EXCEPT !.labels = LabelList(n, d),
                                       !.boundary_color = bc,
                                       !.kwargs = <<KwargsAt(k)>>]
             /\ ret' = [NoRet EXCEPT !.err = r.err, !.seg_map = <<r.val>>]
    /\ op' = "label_style_dict"
    /\ pc' = "done"
    /\ UNCHANGED datavars

NextViz ==
    \/ LabelStyleDict
    \/ Return

SpecViz == Init /\ [][NextViz]_vars

\* ------------------------------------------------------ reading a BaseTrack
\* Track(track_id=.., jams_path=..): one track is built and then read.
NewTrack ==
    /\ pc = "idle"
    /\ track = NoTrack
    /\ \E id \in TrackIds :
         \E jams_path \in {None, Some(Join(DefaultConfig.salami_annotations_dir,
                                           File(id, ".jams")))},
            audio_path \in {None, Some(Join(Join(DefaultConfig.salami_audio_dir,
                                                File(id, "")),
                                           File(<<"audio">>, ".mp3")))} :
            /\ track' = <<BaseTrack_post_init(id, audio_path, jams_path)>>
            /\ args' = [NoArgs EXCEPT !.track_id = id]
    /\ ret' = NoRet
    /\ op' = "Track"
    /\ pc' = "done"
    /\ UNCHANGED _default_config

\* What jams.load does at this access: it raises, or returns the content of
\* the file.
LoadOutcomes == {<<>>} \cup {<<f>> : f \in JamsFiles}

\* track.jams; args.self is the track before the access.
AccessJams ==
    /\ pc = "idle"
    /\ track # NoTrack
    /\ track[1].reads < MaxReads
    /\ \E file \in LoadOutcomes :
         LET r == BaseTrack_jams(track[1], file)
         IN  /\ track' = <<r.self>>
             /\ ret' = [NoRet EXCEPT !.err = r.err, !.jams = r.val]
    /\ args' = [NoArgs EXCEPT !.self = track]
    /\ op' = "jams"
    /\ pc' = "done"
    /\ UNCHANGED _default_config

\* track.info
AccessInfo ==
    /\ pc = "idle"
    /\ track # NoTrack
    /\ track[1].reads < MaxReads
    /\ \E file \in LoadOutcomes :
         LET r == BaseTrack_info(track[1], file)
         IN  /\ track' = <<r.self>>
             /\ ret' = [NoRet EXCEPT !.err = r.err, !.info = r.val]
    /\ args' = [NoArgs EXCEPT !.self = track]
    /\ op' = "info"
    /\ pc' = "done"
    /\ UNCHANGED _default_config

NextTrack ==
    \/ NewTrack
    \/ AccessJams
    \/ AccessInfo
    \/ Return

SpecTrack == Init /\ [][NextTrack]_vars

\* ------------------------------------------------------------ properties
Called(o) == pc = "done" /\ op = o

\* The list `in` in the order a stable sort by start leaves it in: the one
\* arrangement with starts ascending in which spans of equal start keep
\* their relative order.
StablyOrdered(in) ==
    LET n == Len(in)
        p == CHOOSE q \in Permutations(1..n) :
                \A i \in 1..n, j \in 1..n :
                    i < j => \/ in[q[i]].start < in[q[j]].start
                             \/ /\ in[q[i]].start = in[q[j]].start
                                /\ q[i] < q[j]
    IN  [i \in 1..n |-> in[p[i]]]

\* C1: Segmentation(segments) raises, and produces no instance, exactly when
\* the spans ordered by start (stably) have an adjacent pair whose end and
\* start differ; when it succeeds the segments are the given spans in that
\* order, unchanged.
C1_NonContiguousRejected ==
    Called("Segmentation") =>
        LET s == StablyOrdered(args.segments)
            broken == \E i \in 1..(Len(s) - 1) : s[i].end # s[i + 1].start
        IN  /\ (ret.err = "ValueError") <=> broken
            /\ broken => ret.seg = <<>>
            /\ ~broken => /\ ret.err = ""
                          /\ Len(ret.seg) = 1
                          /\ ret.seg[1].segments = s

\* C1 witness: spans given out of order that overlap once ordered, refused.
C1_Witness ==
    /\ Called("Segmentation")
    /\ Len(args.segments) = 2
    /\ args.segments[1].start > args.segments[2].start
    /\ args.segments[2].end > args.segments[1].start
    /\ ret.err = "ValueError"
    /\ ret.seg = <<>>

\* C2 (as claimed): whenever the spans given are some arrangement of a
\* contiguous list, construction succeeds, the segments are ascending by
\* start, and every other arrangement of the same spans builds an equal
\* Segmentation.
C2_PermutationInvariant ==
    LET in == args.segments
        n == Len(in)
        arranged(q) == [i \in 1..n |-> in[q[i]]]
    IN  (/\ Called("Segmentation")
         /\ \E q \in Permutations(1..n) : Contiguous(arranged(q)))
        => /\ ret.err = ""
           /\ Len(ret.seg) = 1
           /\ \A i \in 1..(n - 1) :
                 ret.seg[1].segments[i].start <= ret.seg[1].segments[i + 1].start
           /\ \A q \in Permutations(1..n) :
                 LET other == Segmentation_post_init(args.start, args.end,
                                                     args.name, arranged(q))
                 IN  /\ other.err = ""
                     /\ Segmentation_eq(other.val[1], ret.seg[1])

\* C3: Hierarchy(layers) succeeds exactly when every layer has the start and
\* the end of the first layer; it then has that start and end, and when it
\* fails no Hierarchy is produced.
C3_HierarchyExtent ==
    Called("Hierarchy") =>
        LET ls == args.layers
            same == \A i \in 1..Len(ls) :
                        ls[i].start = ls[1].start /\ ls[i].end = ls[1].end
        IN  /\ (ret.err = "") <=> same
            /\ same => /\ Len(ret.hier) = 1
                       /\ ret.hier[1].layers = ls
                       /\ ls # <<>> => /\ ret.hier[1].start = ls[1].start
                                       /\ ret.hier[1].end = ls[1].end
            /\ ~same => ret.err = "ValueError" /\ ret.hier = <<>>

\* C3 witness: a second layer that ends with the first but starts elsewhere,
\* refused.
C3_Witness ==
    /\ Called("Hierarchy")
    /\ Len(args.layers) = 2
    /\ args.layers[1].end = args.layers[2].end
    /\ args.layers[1].start # args.layers[2].start
    /\ ret.err = "ValueError"
    /\ ret.hier = <<>>

\* C4 (as claimed): from_intervals with explicit labels whose count differs
\* from the number of intervals raises and produces no Segmentation.
C4_LabelCountMismatchRaises ==
    (/\ Called("from_intervals")
     /\ args.labels # None
     /\ Len(args.labels[1]) # Len(args.intervals))
    => ret.err # "" /\ ret.seg = <<>>

\* C5 (as claimed): from_boundaries on a list with a repeated value does not
\* raise; it yields len(B) - 1 contiguous spans with start <= end, among them
\* a zero-length span at the repeated value.
C5_DuplicateBoundaryAccepted ==
    LET b == args.boundaries
    IN  (/\ Called("from_boundaries")
         /\ args.labels = None
         /\ \E i \in 1..Len(b), j \in 1..Len(b) : i # j /\ b[i] = b[j])
        => /\ ret.err = ""
           /\ Len(ret.seg) = 1
           /\ LET s == ret.seg[1].segments
              IN  /\ Len(s) = Len(b) - 1
                  /\ \A i \in 1..Len(s) : s[i].start <= s[i].end
                  /\ \A i \in 1..(Len(s) - 1) : s[i].end = s[i + 1].start
                  /\ \E i \in 1..Len(s) : s[i].start = s[i].end

\* C6 (as claimed): for boundaries B holding at least two distinct values
\* and labels L with len(L) = len(B) - 1, from_boundaries(B, L).bdrys is B
\* sorted ascending and .labels is L.
C6_BoundaryRoundTrip ==
    LET b == args.boundaries
    IN  (/\ Called("from_boundaries")
         /\ \E i \in 1..Len(b), j \in 1..Len(b) : b[i] # b[j]
         /\ args.labels # None
         /\ Len(args.labels[1]) = Len(b) - 1)
        => /\ ret.err = ""
           /\ Len(ret.seg) = 1
           /\ Segmentation_bdrys(ret.seg[1]) = sorted(b)
           /\ Segmentation_labels(ret.seg[1]) = args.labels[1]

\* C7: every Segmentation produced has as many itvls as labels as segments,
\* and every Hierarchy produced has as many itvls as labels as layers, with
\* itvls[i] and labels[i] of equal length for every layer i.
C7_ShapeConsistent ==
    /\ ret.seg # <<>> =>
          LET s == ret.seg[1]
          IN  /\ Len(Segmentation_itvls(s)) = Len(Segmentation_labels(s))
              /\ Len(Segmentation_labels(s)) = Segmentation_len(s)
    /\ ret.hier # <<>> =>
          LET h == ret.hier[1]
          IN  /\ Len(Hierarchy_itvls(h)) = Len(Hierarchy_labels(h))
              /\ Len(Hierarchy_labels(h)) = Hierarchy_len(h)
              /\ \A i \in 1..Hierarchy_len(h) :
                    Len(Hierarchy_itvls(h)[i]) = Len(Hierarchy_labels(h)[i])

\* C7 witness: a Hierarchy of two layers with different numbers of segments.
C7_Witness ==
    /\ Called("Hierarchy")
    /\ ret.hier # <<>>
    /\ Hierarchy_len(ret.hier[1]) = 2
    /\ Segmentation_len(ret.hier[1].layers[1]) = 1
    /\ Segmentation_len(ret.hier[1].layers[2]) = 2

\* C8: TimeSpan(start, end) raises exactly when start > end; otherwise the
\* TimeSpan produced has the given start and end, so start <= end, and
\* start == end is accepted.
C8_TimeSpanRange ==
    Called("TimeSpan") =>
        /\ (ret.err = "ValueError") <=> (args.start > args.end)
        /\ args.start > args.end => ret.span = <<>>
        /\ args.start <= args.end =>
              /\ ret.err = ""
              /\ Len(ret.span) = 1
              /\ ret.span[1].start = args.start
              /\ ret.span[1].end = args.end
              /\ ret.span[1].start <= ret.span[1].end

\* C8 witness: a zero-length TimeSpan is built.
C8_Witness ==
    /\ Called("TimeSpan")
    /\ args.start = args.end
    /\ ret.err = ""
    /\ Len(ret.span) = 1
    /\ ret.span[1].start = ret.span[1].end

C11_ExtentFromSegments ==
    (Called("Segmentation") /\ args.segments # <<>> /\ ret.err = "") =>
        LET s == StablyOrdered(args.segments)
        IN  /\ Len(ret.seg) = 1
            /\ ret.seg[1].start = s[1].start
            /\ ret.seg[1].end = s[Len(s)].end
            /\ \A i \in 1..Len(s) : ret.seg[1].start <= s[i].start

\* C11 witness: spans given out of order together with an explicit start and
\* end that differ from the spans' extent.
C11_Witness ==
    /\ Called("Segmentation")
    /\ Len(args.segments) = 2
    /\ args.segments[1].start > args.segments[2].start
    /\ args.start > args.segments[2].start
    /\ args.end < args.segments[1].end
    /\ ret.seg # <<>>
    /\ ret.seg[1].start = args.segments[2].start
    /\ ret.seg[1].end = args.segments[1].end

\* C12: with labels omitted, from_intervals and from_boundaries produce one
\* label per interval, each a string (not None) that is the rendering
\* "[start-end s]" of that segment's own start and end.
C12_DefaultLabels ==
    ((Called("from_intervals") \/ Called("from_boundaries"))
        /\ args.labels = None /\ ret.err = "") =>
        LET seg == ret.seg[1]
            labs == Segmentation_labels(seg)
            given == IF op = "from_intervals" THEN Len(args.intervals)
                     ELSE IF args.boundaries = <<>> THEN 0
                     ELSE Len(args.boundaries) - 1
        IN  /\ Len(labs) = given
            /\ \A i \in 1..Len(labs) :
                  LET sp == seg.segments[i]
                  IN  /\ labs[i] # None
                      /\ labs[i] = Some(TimeSpan_str(sp.start, sp.end, None))
                      /\ (sp.start = 0 /\ sp.end = 2) => labs[i] = Some("[0.0-1.0s]")
                      /\ (sp.start = 1 /\ sp.end = 1) => labs[i] = Some("[0.5-0.5s]")

\* C12 witness: from_boundaries([0, 0.5, 1]) without labels yields the labels
\* "[0.0-0.5s]" and "[0.5-1.0s]".
C12_Witness ==
    /\ Called("from_boundaries")
    /\ args.labels = None
    /\ args.boundaries = <<0, 1, 2>>
    /\ ret.seg # <<>>
    /\ Segmentation_labels(ret.seg[1]) = <<Some("[0.0-0.5s]"), Some("[0.5-1.0s]")>>

C14_LayersInCallerOrder ==
    (Called("Hierarchy") /\ ret.err = "") =>
        LET h == ret.hier[1]
            ls == args.layers
        IN  /\ Hierarchy_len(h) = Len(ls)
            /\ Len(Hierarchy_itvls(h)) = Len(ls)
            /\ Len(Hierarchy_labels(h)) = Len(ls)
            /\ Len(Hierarchy_bdrys(h)) = Len(ls)
            /\ \A i \in 1..Len(ls) :
                  /\ Hierarchy_getitem(h, i - 1) = [err |-> "", val |-> <<ls[i]>>]
                  /\ Hierarchy_itvls(h)[i] = Segmentation_itvls(ls[i])
                  /\ Hierarchy_labels(h)[i] = Segmentation_labels(ls[i])
                  /\ Hierarchy_bdrys(h)[i] = Segmentation_bdrys(ls[i])

\* C14 witness: a Hierarchy given its finer layer first keeps it first.
C14_Witness ==
    /\ Called("Hierarchy")
    /\ Len(args.layers) = 2
    /\ Segmentation_len(args.layers[1]) > Segmentation_len(args.layers[2])
    /\ ret.hier # <<>>
    /\ ret.hier[1].layers[1] = args.layers[1]

\* C17 (as claimed): when Hierarchy(...) fails, what the failure reports
\* holds the index (counted from 0 or from 1) of a layer whose start or end
\* differs from the first layer's.
C17_FailureNamesLayer ==
    (Called("Hierarchy") /\ ret.err # "") =>
        \E i \in 1..Len(args.layers) :
            /\ \/ args.layers[i].start # args.layers[1].start
               \/ args.layers[i].end # args.layers[1].end
            /\ \E k \in 1..Len(ret.msg) :
                  ret.msg[k] \in {ToString(i - 1), ToString(i)}

\* C19 (as claimed): plot() of a Hierarchy with no layers raises nothing and
\* draws no patches and no texts; the title is the Hierarchy's name when it
\* has one and empty otherwise.
C19_EmptyPlotTitled ==
    (Called("Hierarchy.plot") /\ args.self[1].layers = <<>>) =>
        /\ ret.err = ""
        /\ ret.axes.patches = 0
        /\ ret.axes.texts = 0
        /\ ret.axes.title = IF args.self[1].name = None THEN ""
                            ELSE args.self[1].name[1]

\* C20: Segment(start, end, ...) raises ValueError exactly when start >= end;
\* a Segment produced has start < end and a length end - start of at least 1.
C20_SegmentRange ==
    Called("Segment") =>
        /\ (ret.err = "ValueError") <=> (args.start >= args.end)
        /\ args.start >= args.end => ret.segment = <<>>
        /\ args.start < args.end =>
              /\ ret.err = ""
              /\ Len(ret.segment) = 1
              /\ ret.segment[1].start = args.start
              /\ ret.segment[1].end = args.end
              /\ ret.segment[1].start < ret.segment[1].end
              /\ Segment_len(ret.segment[1]) = args.end - args.start
              /\ Segment_len(ret.segment[1]) >= 1

\* C20 witness: Segment(start, start, ...) is refused.
C20_Witness ==
    /\ Called("Segment")
    /\ args.start = args.end
    /\ ret.err = "ValueError"
    /\ ret.segment = <<>>

\* C15: no read of a TimeSpan, Segmentation or Hierarchy (len, indexing,
\* labels, itvls, bdrys, str, repr) changes the instance: after any sequence
\* of reads its start, end, name and segments or layers are what they were,
\* the lists that labels and bdrys return are not list objects of the
\* instance, and emptying them leaves the instance as it was.
C15_ReadsLeaveInstance ==
    (pc \in {"held", "done"} /\ args.self # <<>>) =>
        /\ ret.self = args.self
        /\ ret.self[1].start = args.self[1].start
        /\ ret.self[1].end = args.self[1].end
        /\ ret.self[1].name = args.self[1].name
        /\ IsSegmentation(args.self[1]) =>
              ret.self[1].segments = args.self[1].segments
        /\ IsHierarchy(args.self[1]) =>
              ret.self[1].layers = args.self[1].layers
        /\ op \in ListReads => ~ret.shared

\* C15 witness: the list returned by labels of a Segmentation of two
\* segments has been emptied, and the Segmentation still has its segments.
C15_Witness ==
    /\ Called("Segmentation.clear_returned")
    /\ ret.names = <<>>
    /\ Len(args.self[1].segments) = 2
    /\ Segmentation_labels(ret.self[1]) = <<Some("[0.0-0.5s]"), Some("[0.5-1.0s]")>>

\* C16: seg[i] is the i-th span in ascending order of start for every
\* 0 <= i < len(seg), and fails with IndexError for every i >= len(seg), so
\* for every i >= 0 on the empty Segmentation.
C16_IndexInRange ==
    Called("Segmentation.getitem") =>
        LET seg == args.self[1]
            i == args.index
            n == Segmentation_len(seg)
        IN  /\ (0 <= i /\ i < n) =>
                  /\ ret.err = ""
                  /\ ret.span = <<StablyOrdered(seg.segments)[i + 1]>>
                  /\ \A j \in 1..n :
                        /\ j < i + 1 => seg.segments[j].start <= ret.span[1].start
                        /\ j > i + 1 => seg.segments[j].start >= ret.span[1].start
            /\ i >= n => (ret.err = "IndexError" /\ ret.span = <<>>)

\* C16 witness: seg[0] on the empty Segmentation fails with IndexError.
C16_Witness ==
    /\ Called("Segmentation.getitem")
    /\ args.self[1].segments = <<>>
    /\ args.index = 0
    /\ ret.err = "IndexError"

\* C18: bdrys of a non-empty Segmentation is the start of the first segment
\* followed by the end of every segment in order, len(segments) + 1 values
\* in ascending (non-decreasing) order; bdrys of the empty Segmentation is
\* the empty list.
C18_BoundariesOfSegments ==
    Called("Segmentation.bdrys") =>
        LET seg == args.self[1]
            n == Len(seg.segments)
            b == ret.nums
        IN  /\ n = 0 => b = <<>>
            /\ n > 0 =>
                  /\ Len(b) = n + 1
                  /\ b[1] = seg.segments[1].start
                  /\ \A i \in 1..n : b[i + 1] = seg.segments[i].end
                  /\ \A i \in 1..n : b[i] <= b[i + 1]

\* C18 witness: bdrys of the Segmentation [0, 0.5), [0.5, 1) is 0, 0.5, 1.
C18_Witness ==
    /\ Called("Segmentation.bdrys")
    /\ Len(args.self[1].segments) = 2
    /\ ret.nums = <<0, 1, 2>>

\* C21: get_config returns the DatasetConfig of the most recent set_config
\* (the default one before any): the configuration starts as DatasetConfig(),
\* a set_config step makes it the config passed, no other step changes it,
\* get_config returns it, and load_track and list_tids look in the
\* directories of the configuration current when they are called.
C21_ConfigCurrent ==
    /\ _default_config = DefaultConfig
    /\ [][(pc' = "done" /\ op' = "set_config")
             => _default_config' = args'.config[1]]_vars
    /\ [][~(pc' = "done" /\ op' = "set_config")
             => _default_config' = _default_config]_vars
    /\ [](Called("get_config") => ret.config = <<_default_config>>)
    /\ [](Called("load_track") =>
            LET jams_path == Join(_default_config.salami_annotations_dir,
                                  File(args.track_id, ".jams"))
            IN  /\ (ret.err = "FileNotFoundError") <=> (jams_path \notin args.fs)
                /\ ret.err = "" =>
                      /\ ret.tracks[1].jams_path = Some(jams_path)
                      /\ ret.tracks[1].audio_path # None =>
                            /\ ret.tracks[1].audio_path[1] \in args.fs
                            /\ SubSeq(ret.tracks[1].audio_path[1], 1,
                                      Len(_default_config.salami_audio_dir))
                                  = _default_config.salami_audio_dir)
    /\ [](Called("list_tids") =>
            LET dir == _default_config.salami_annotations_dir
            IN  /\ dir \notin args.fs => (ret.err = "" /\ ret.tids = <<>>)
                /\ \A i \in 1..Len(ret.tids) :
                      Join(dir, File(ret.tids[i], ".jams")) \in args.fs)

\* C21 witness: after set_config with a configuration of its own annotation
\* directory, load_track finds the track in that directory.
C21_Witness ==
    /\ Called("load_track")
    /\ _default_config # DefaultConfig
    /\ _default_config.salami_annotations_dir = <<Name("jams")>>
    /\ ret.err = ""
    /\ ret.tracks[1].jams_path = Some(<<Name("jams"), File(<<"1">>, ".jams")>>)
    /\ ret.tracks[1].audio_path = Some(<<Name("audio"), File(<<"1">>, ""),
                                         File(<<"audio">>, ".wav")>>)

\* C22: load_tracks raises nothing for missing JAMS files: it returns, in
\* the order requested, one Track for every requested id whose JAMS file
\* exists and none for the others; load_track on a missing file raises
\* FileNotFoundError.
C22_MissingTracksSkipped ==
    LET dir == _default_config.salami_annotations_dir
        Present(id) == Join(dir, File(id, ".jams")) \in args.fs
    IN  /\ Called("load_tracks") =>
              LET wanted == SelectSeq(args.track_ids, Present)
              IN  /\ ret.err = ""
                  /\ Len(ret.tracks) = Len(wanted)
                  /\ \A k \in 1..Len(wanted) :
                        /\ ret.tracks[k].track_id = wanted[k]
                        /\ ret.tracks[k].jams_path
                              = Some(Join(dir, File(wanted[k], ".jams")))
        /\ (Called("load_track") /\ ~Present(args.track_id)) =>
              (ret.err = "FileNotFoundError" /\ ret.tracks = <<>>)

\* C22 witness: of two requested ids the first has no JAMS file and the
\* second has one; the result is the Track of the second.
C22_Witness ==
    /\ Called("load_tracks")
    /\ Len(args.track_ids) = 2
    /\ Join(_default_config.salami_annotations_dir,
            File(args.track_ids[1], ".jams")) \notin args.fs
    /\ Len(ret.tracks) = 1
    /\ ret.tracks[1].track_id = args.track_ids[2]

\* C23 (as claimed): list_tids returns the stems of the .jams entries of the
\* configured annotation directory that consist only of digits, each once,
\* in ascending order of integer value, and the empty list when the
\* directory does not exist.
C23_NumericStemsSorted ==
    Called("list_tids") =>
        LET dir == _default_config.salami_annotations_dir
            stems == {path[Len(path)].stem : path \in
                         {q \in glob_jams(dir, args.fs) : isdigit(q[Len(q)].stem)}}
        IN  /\ ret.err = ""
            /\ {ret.tids[i] : i \in 1..Len(ret.tids)} = stems
            /\ Len(ret.tids) = Cardinality(stems)
            /\ \A i, j \in 1..Len(ret.tids) :
                  i < j => /\ int(ret.tids[i]).err = ""
                           /\ int(ret.tids[j]).err = ""
                           /\ int(ret.tids[i]).val <= int(ret.tids[j]).val
            /\ dir \notin args.fs => ret.tids = <<>>

\* C24: find_audio_file returns None when the track directory does not
\* exist or holds none of audio.mp3, audio.wav, audio.flac, audio.m4a, and
\* otherwise the existing one that comes first in that order.
C24_FirstAudioFile ==
    Called("find_audio_file") =>
        LET track_dir == Join(args.audio_dir, File(args.track_id, ""))
            Audio(i) == Join(track_dir, File(<<"audio">>, audio_extensions[i]))
            none == \/ track_dir \notin args.fs
                    \/ \A i \in 1..Len(audio_extensions) : Audio(i) \notin args.fs
        IN  /\ audio_extensions = <<".mp3", ".wav", ".flac", ".m4a">>
            /\ none <=> (ret.path = None)
            /\ ~none => \E i \in 1..Len(audio_extensions) :
                            /\ ret.path = Some(Audio(i))
                            /\ Audio(i) \in args.fs
                            /\ \A j \in 1..(i - 1) : Audio(j) \notin args.fs

\* C24 witness: the track directory holds audio.wav and audio.flac but no
\* audio.mp3, and audio.wav is returned.
C24_Witness ==
    /\ Called("find_audio_file")
    /\ LET track_dir == Join(args.audio_dir, File(args.track_id, ""))
       IN  /\ Join(track_dir, File(<<"audio">>, ".mp3")) \notin args.fs
           /\ Join(track_dir, File(<<"audio">>, ".wav")) \in args.fs
           /\ Join(track_dir, File(<<"audio">>, ".flac")) \in args.fs
           /\ ret.path = Some(Join(track_dir, File(<<"audio">>, ".wav")))

\* C25 (as claimed): DatasetConfig keeps every directory supplied and fills
\* the others from the effective data_root: data_root is ~/data,
\* salami_annotations_dir is data_root/salami-jams, salami_audio_dir is
\* data_root/salami/audio and adobe_estimations_dir is
\* data_root/ISMIR21-Segmentations/SALAMI.
C25_DocumentedDefaults ==
    Called("DatasetConfig") =>
        LET given == args.config
            c == ret.config[1]
            root == IF given[1] = None THEN <<Name("~"), Name("data")>>
                    ELSE Path(given[1][1])
        IN  /\ c.data_root = root
            /\ c.salami_annotations_dir
                  = IF given[2] = None THEN Join(root, Name("salami-jams"))
                    ELSE Path(given[2][1])
            /\ c.salami_audio_dir
                  = IF given[3] = None THEN Join(Join(root, Name("salami")), Name("audio"))
                    ELSE Path(given[3][1])
            /\ c.adobe_estimations_dir
                  = IF given[4] = None
                    THEN Join(Join(root, Name("ISMIR21-Segmentations")), Name("SALAMI"))
                    ELSE Path(given[4][1])

\* C26: for a non-empty input label_style_dict returns one style entry for
\* every distinct label, however many there are, and none besides; the
\* 'label' of each entry is its key; every other property the caller passes
\* in kwargs has the caller's value, edgecolor is boundary_color unless
\* kwargs gives one, and the rest comes from the style cycle.
C26_OneStylePerLabel ==
    (Called("label_style_dict") /\ args.labels # <<>>) =>
        LET distinct == {args.labels[i] : i \in 1..Len(args.labels)}
            kwargs == args.kwargs[1]
        IN  /\ ret.err = ""
            /\ DOMAIN ret.seg_map[1] = distinct
            /\ \A lab \in distinct :
                  LET e == ret.seg_map[1][lab]
                  IN  /\ e["label"] = lab
                      /\ \A k \in DOMAIN kwargs \ {"label"} : e[k] = kwargs[k]
                      /\ "edgecolor" \notin DOMAIN kwargs =>
                            e["edgecolor"] = args.boundary_color
                      /\ {"facecolor", "hatch", "linewidth", "edgecolor", "label"}
                            \subseteq DOMAIN e

\* C26 witness: 361 distinct labels, one more than the 360 combinations of
\* the large palette; the last label has the style of the first.
C26_Witness ==
    /\ Called("label_style_dict")
    /\ Cardinality({args.labels[i] : i \in 1..Len(args.labels)}) = 361
    /\ args.kwargs[1] = KwargsAt(0)
    /\ 361 \in DOMAIN ret.seg_map[1]
    /\ ret.seg_map[1][361].facecolor = ret.seg_map[1][1].facecolor
    /\ ret.seg_map[1][361].hatch = ret.seg_map[1][1].hatch
    /\ ret.seg_map[1][361].label = 361

\* C27 (as claimed): every Segmentation and every Hierarchy that is
\* constructed has start <= end, whatever arguments the constructor got,
\* explicit start and end with no segments or layers included.
C27_AggregateRange ==
    /\ (Called("Segmentation") /\ ret.err = "") => ret.seg[1].start <= ret.seg[1].end
    /\ (Called("from_intervals") /\ ret.err = "") => ret.seg[1].start <= ret.seg[1].end
    /\ (Called("from_boundaries") /\ ret.err = "") => ret.seg[1].start <= ret.seg[1].end
    /\ (Called("Hierarchy") /\ ret.err = "") => ret.hier[1].start <= ret.hier[1].end

\* C28 (as claimed): from_boundaries on a list B does not fail and yields
\* max(len(B) - 1, 0) segments; for len(B) <= 1 the result is the empty
\* Segmentation, with start = end = 0 and no boundaries, whatever the one
\* boundary was.
C28_SegmentCount ==
    Called("from_boundaries") =>
        LET n == Len(args.boundaries)
        IN  /\ ret.err = ""
            /\ Len(ret.seg) = 1
            /\ Segmentation_len(ret.seg[1]) = IF n >= 1 THEN n - 1 ELSE 0
            /\ n <= 1 => /\ ret.seg[1].segments = <<>>
                         /\ ret.seg[1].start = 0
                         /\ ret.seg[1].end = 0
                         /\ Segmentation_bdrys(ret.seg[1]) = <<>>

\* C30 (as claimed): a TimeSpan built without a name gets its interval
\* string as name, a Segmentation or Hierarchy built without a name keeps
\* name None, and Hierarchy.plot labels the layer at index i (from 0) that
\* has no name "Layer i" and a named layer by its name.
C30_UnnamedLayerLabels ==
    /\ (Called("TimeSpan") /\ ret.err = "" /\ args.name = None) =>
          ret.span[1].name = Some(TimeSpan_str(args.start, args.end, None))
    /\ ((Called("Segmentation") \/ Called("from_intervals") \/ Called("from_boundaries"))
           /\ ret.err = "" /\ args.name = None) => ret.seg[1].name = None
    /\ (Called("Hierarchy") /\ ret.err = "" /\ args.name = None) =>
          ret.hier[1].name = None
    /\ (Called("Hierarchy.plot") /\ args.self[1].layers # <<>>) =>
          LET layers == args.self[1].layers
          IN  /\ ret.err = ""
              /\ Len(ret.axes.yticklabels) = Len(layers)
              /\ \A i \in 1..Len(layers) :
                    ret.axes.yticklabels[i]
                        = IF layers[i].name = None THEN "Layer " \o ToString(i - 1)
                          ELSE layers[i].name[1]

\* C29: a BaseTrack loads its JAMS file lazily and at most once: nothing is
\* loaded at construction; over any sequence of accesses to jams and info
\* jams.load returns at most once for the track and at most one info
\* dictionary is built; once cached, the object and the dictionary never
\* change and every later access returns them; an access while jams_path is
\* None raises ValueError and leaves both caches empty.
C29_LoadedOnce ==
    /\ [](track # NoTrack =>
            /\ track[1].reads <= 1
            /\ track[1].dicts <= 1
            /\ (track[1]._jams = None) <=> (track[1].reads = 0)
            /\ (track[1]._info = None) <=> (track[1].dicts = 0)
            /\ track[1]._info # None => track[1]._jams # None)
    /\ [](Called("Track") => (track[1]._jams = None /\ track[1]._info = None))
    /\ []((Called("jams") /\ ret.err = "") =>
            (ret.jams # None /\ ret.jams = track[1]._jams))
    /\ []((Called("info") /\ ret.err = "") =>
            /\ ret.info # None /\ ret.info = track[1]._info
            /\ ret.info[1].duration = track[1]._jams[1].file_metadata.duration)
    /\ []((Called("jams") \/ Called("info")) =>
            /\ args.self[1]._jams # None => ret.err = ""
            /\ args.self[1].jams_path = None =>
                  /\ ret.err = "ValueError"
                  /\ track[1]._jams = None
                  /\ track[1]._info = None)
    /\ [][(track # NoTrack /\ track[1]._jams # None) =>
             /\ track'[1]._jams = track[1]._jams
             /\ track'[1].reads = track[1].reads]_vars
    /\ [][(track # NoTrack /\ track[1]._info # None) =>
             track'[1]._info = track[1]._info]_vars

\* C29 witness: info is read on a track whose JAMS object is already cached
\* and whose info is not: the dictionary is built from the cached object
\* and nothing is loaded again.
C29_Witness ==
    /\ Called("info")
    /\ args.self[1]._jams # None
    /\ args.self[1]._info = None
    /\ ret.err = ""
    /\ track[1]._jams = args.self[1]._jams
    /\ track[1].reads = 1
    /\ track[1]._info = ret.info
    /\ ret.info[1].artist = <<"A", " ", "B">>

=============================================================================
